---------------------------- MODULE Spec2Model ----------------------------
(***************************************************************************)
(* Student result system: the SQLite store of database.py (students,      *)
(* subjects, results), its mutators and queries, the grading policy and    *)
(* the report aggregation, with the status shown by the Reports page of    *)
(* app2.py.                                                                *)
(*                                                                         *)
(* Tables are sets of rows.  The AUTOINCREMENT id and created_at columns   *)
(* are left out: no statement of the program reads them.  Floating point   *)
(* percentages are kept as exact fractions [n, d] with d > 0, and a value  *)
(* rounded with round(x, 1) is kept as an integer number of tenths.        *)
(***************************************************************************)
EXTENDS Integers, Sequences, FiniteSets, TLC

VARIABLES
    students,   \* the students table: rows [id, name, class]
    subjects,   \* the subjects table: rows [name, max_marks]
    results,    \* the results table: rows [student_id, subject_name, marks]
    op,         \* the method called last
    args,       \* its arguments
    ret,        \* what it returned
    replaced    \* the results rows its INSERT OR REPLACE removed

vars == <<students, subjects, results, op, args, ret, replaced>>
tables == <<students, subjects, results>>

None == "None"

(***************************************************************************)
(* Bounds of the model.                                                    *)
(***************************************************************************)
\* most rows the results table holds in the model
MaxRows == 2
\* get_grade is exercised on 0.0, 0.1, ... up to MaxPctTenths / 10
MaxPctTenths == 1100
\* most save_marks calls that raise within one submission of the marks form
MaxFaults == 1

(***************************************************************************)
(* Text comparison (SQLite BINARY collation) over the strings of the       *)
(* model, listed in ascending order.                                       *)
(***************************************************************************)
Collation == <<"Alice Brown", "Art", "English", "History", "Jane Smith",
               "John Doe", "Mathematics", "Mike Johnson", "Science">>
Rank(s) == CHOOSE i \in 1..Len(Collation) : Collation[i] = s

\* every list of the v fields of the records of S, each once, in ascending
\* order of their k fields; records with equal k come in whatever order the
\* scan produces
RECURSIVE Sorted(_)
Sorted(S) ==
    IF S = {} THEN { <<>> }
    ELSE LET firsts == { x \in S : \A y \in S : x.k <= y.k }
         IN  UNION { { <<x.v>> \o l : l \in Sorted(S \ {x}) } : x \in firsts }

\* ORDER BY a text column: rows are given as [k |-> column, v |-> row]
OrderBy(keyed) == Sorted({ [k |-> Rank(x.k), v |-> x.v] : x \in keyed })

\* the sum of the v fields of a set of records
RECURSIVE SumV(_)
SumV(S) == IF S = {} THEN 0
           ELSE LET x == CHOOSE y \in S : TRUE
                IN  x.v + SumV(S \ {x})

(***************************************************************************)
(* Connection and schema.                                                  *)
(***************************************************************************)
\* sqlite3.connect() with no PRAGMA foreign_keys = ON: SQLite leaves
\* foreign-key enforcement off, so the FOREIGN KEY ... ON DELETE CASCADE
\* clauses of the results table are parsed and not enforced
foreign_keys == FALSE

StudentIdsOf(st) == { s.id : s \in st }
SubjectNamesOf(su) == { s.name : s \in su }

\* the rows a DELETE of the parent rows removes from results
CascadeStudents(gone) ==
    IF foreign_keys THEN { r \in results : r.student_id \in gone } ELSE {}
CascadeSubjects(gone) ==
    IF foreign_keys THEN { r \in results : r.subject_name \in gone } ELSE {}

(***************************************************************************)
(* Sample data.                                                            *)
(***************************************************************************)
sample_subjects == << <<"Mathematics", 100>>, <<"English", 100>>,
                      <<"Science", 100>>, <<"History", 100>> >>
sample_students == << <<"S001", "John Doe", "10th Grade">>,
                      <<"S002", "Jane Smith", "10th Grade">>,
                      <<"S003", "Mike Johnson", "10th Grade">> >>

\* mutant of init_sample_subjects: a sample subject replaces the stored one
init_sample_subjects_replacing(st, su) ==
    IF st # {} THEN su
    ELSE { s \in su : \A k \in DOMAIN sample_subjects : sample_subjects[k][1] # s.name }
           \cup { [name |-> sample_subjects[i][1], max_marks |-> sample_subjects[i][2]] :
                     i \in DOMAIN sample_subjects }

\* the subjects table after init_sample_data, from tables st and su
init_sample_subjects(st, su) ==
    IF st # {} THEN su
    ELSE su \cup { [name |-> sample_subjects[i][1], max_marks |-> sample_subjects[i][2]] :
                     i \in { k \in DOMAIN sample_subjects :
                               sample_subjects[k][1] \notin SubjectNamesOf(su) } }

\* the students table after init_sample_data, from table st
init_sample_students(st) ==
    IF st # {} THEN st
    ELSE { [id |-> sample_students[i][1], name |-> sample_students[i][2],
            class |-> sample_students[i][3]] : i \in DOMAIN sample_students }

Init ==
    /\ students = init_sample_students({})
    /\ subjects = init_sample_subjects({}, {})
    /\ results = {}
    /\ op = "StudentDatabase"
    /\ args = <<>>
    /\ ret = None
    /\ replaced = {}

\* StudentDatabase(db_name) over the store as it is: the tables exist, and
\* init_sample_data fills them when there is no student
StudentDatabase ==
    /\ students' = init_sample_students(students)
    /\ subjects' = init_sample_subjects(students, subjects)
    /\ UNCHANGED results
    /\ op' = "StudentDatabase"
    /\ args' = <<>>
    /\ replaced' = {}
    /\ ret' = None

(***************************************************************************)
(* Student operations.                                                     *)
(***************************************************************************)
\* mutant of StudentIdTaken: the id is not checked
StudentIdTaken_never(student_id) == FALSE

\* INSERT INTO students violates PRIMARY KEY (id)
StudentIdTaken(student_id) == student_id \in StudentIdsOf(students)

add_student(student_id, name, class_name) ==
    /\ op' = "add_student"
    /\ args' = <<student_id, name, class_name>>
    /\ replaced' = {}
    /\ IF StudentIdTaken(student_id)
       THEN \* sqlite3.IntegrityError
            /\ ret' = FALSE
            /\ UNCHANGED tables
       ELSE /\ students' = students \cup
                   {[id |-> student_id, name |-> name, class |-> class_name]}
            /\ ret' = TRUE
            /\ UNCHANGED <<subjects, results>>

delete_student(student_id) ==
    /\ op' = "delete_student"
    /\ args' = <<student_id>>
    /\ replaced' = {}
    /\ students' = { s \in students : s.id # student_id }
    /\ results' = results \ CascadeStudents({student_id})
    /\ ret' = TRUE
    /\ UNCHANGED subjects

\* mutant of clear_all_students: only DELETE FROM students
clear_all_students_keeps_results ==
    /\ op' = "clear_all_students"
    /\ args' = <<>>
    /\ replaced' = {}
    /\ students' = {}
    /\ ret' = None
    /\ UNCHANGED <<subjects, results>>

\* DELETE FROM students; DELETE FROM results
clear_all_students ==
    /\ op' = "clear_all_students"
    /\ args' = <<>>
    /\ replaced' = {}
    /\ students' = {}
    /\ results' = {}
    /\ ret' = None
    /\ UNCHANGED subjects

(***************************************************************************)
(* Subject operations.                                                     *)
(***************************************************************************)
\* INSERT INTO subjects violates UNIQUE (name)
SubjectNameTaken(name) == name \in SubjectNamesOf(subjects)

add_subject(name, max_marks) ==
    /\ op' = "add_subject"
    /\ args' = <<name, max_marks>>
    /\ replaced' = {}
    /\ IF SubjectNameTaken(name)
       THEN \* sqlite3.IntegrityError
            /\ ret' = FALSE
            /\ UNCHANGED tables
       ELSE /\ subjects' = subjects \cup {[name |-> name, max_marks |-> max_marks]}
            /\ ret' = TRUE
            /\ UNCHANGED <<students, results>>

delete_subject(name) ==
    /\ op' = "delete_subject"
    /\ args' = <<name>>
    /\ replaced' = {}
    /\ subjects' = { s \in subjects : s.name # name }
    /\ results' = results \ CascadeSubjects({name})
    /\ ret' = TRUE
    /\ UNCHANGED students

clear_all_subjects ==
    /\ op' = "clear_all_subjects"
    /\ args' = <<>>
    /\ replaced' = {}
    /\ subjects' = {}
    /\ results' = {}
    /\ ret' = None
    /\ UNCHANGED students

(***************************************************************************)
(* Results operations.                                                     *)
(***************************************************************************)
\* mutant of Replaced: a plain INSERT that removes no row
Replaced_nothing(student_id, subject_name) == {}

\* the rows INSERT OR REPLACE removes: those that hold the same
\* UNIQUE(student_id, subject_name) key as the new row
Replaced(student_id, subject_name) ==
    { r \in results : r.student_id = student_id /\ r.subject_name = subject_name }

\* the statement raises, and the bare except returns False, when a parent
\* row is missing with foreign keys on
SaveFails(student_id, subject_name) ==
    /\ foreign_keys
    /\ \/ student_id \notin StudentIdsOf(students)
       \/ subject_name \notin SubjectNamesOf(subjects)

\* save_marks with an integer marks; the model takes the call only while it
\* leaves at most MaxRows rows in results
save_marks(student_id, subject_name, marks) ==
    /\ \/ Replaced(student_id, subject_name) # {}
       \/ Cardinality(results) < MaxRows
       \/ SaveFails(student_id, subject_name)
    /\ op' = "save_marks"
    /\ args' = <<student_id, subject_name, marks>>
    /\ IF SaveFails(student_id, subject_name)
       THEN /\ ret' = FALSE
            /\ replaced' = {}
            /\ UNCHANGED tables
       ELSE /\ results' = (results \ Replaced(student_id, subject_name)) \cup
                   {[student_id |-> student_id, subject_name |-> subject_name,
                     marks |-> marks]}
            /\ replaced' = Replaced(student_id, subject_name)
            /\ ret' = TRUE
            /\ UNCHANGED <<students, subjects>>

\* save_marks(student_id, subject_name, None): marks is NOT NULL with no
\* default, the statement aborts with sqlite3.IntegrityError, the bare
\* except returns False
save_marks_null(student_id, subject_name) ==
    /\ op' = "save_marks"
    /\ args' = <<student_id, subject_name, None>>
    /\ replaced' = {}
    /\ ret' = FALSE
    /\ UNCHANGED tables

(***************************************************************************)
(* Numbers.                                                                *)
(***************************************************************************)
\* the float a / b as an exact fraction with a positive denominator (b # 0)
Frac(a, b) == IF b > 0 THEN [n |-> a, d |-> b] ELSE [n |-> 0 - a, d |-> 0 - b]

\* round(p, 1), in tenths: the nearest tenth, an exact half going to the
\* even neighbour
Round1(p) ==
    LET fl  == (10 * p.n) \div p.d
        rem == 10 * p.n - fl * p.d
    IN  IF 2 * rem > p.d THEN fl + 1
        ELSE IF 2 * rem < p.d THEN fl
        ELSE IF fl % 2 = 0 THEN fl ELSE fl + 1

\* mutant of AtLeast: the bound is exclusive
MoreThan(p, t) == p.n > t * p.d

\* p >= t for a fraction p and an integer t
AtLeast(p, t) == p.n >= t * p.d

(***************************************************************************)
(* Queries.                                                                *)
(***************************************************************************)
\* SELECT id, name, class FROM students ORDER BY name: the admissible lists
get_all_students == OrderBy({ [k |-> s.name, v |-> s] : s \in students })

\* SELECT name, max_marks FROM subjects ORDER BY name: the admissible lists
get_all_subjects == OrderBy({ [k |-> s.name, v |-> s] : s \in subjects })

get_student_count == Cardinality(students)

get_subject_count == Cardinality(subjects)

\* {subject_name: marks} over the rows of the student
get_student_results(student_id) ==
    LET rows == { r \in results : r.student_id = student_id }
    IN  [ n \in { r.subject_name : r \in rows } |->
            (CHOOSE r \in rows : r.subject_name = n).marks ]

get_grade(percentage) ==
    IF AtLeast(percentage, 90) THEN "A"
    ELSE IF AtLeast(percentage, 80) THEN "B"
    ELSE IF AtLeast(percentage, 70) THEN "C"
    ELSE IF AtLeast(percentage, 60) THEN "D"
    ELSE "F"

\* mutant of CountedAsPass: the threshold is applied to marks / max_marks * 100
CountedAsPass_by_percentage(r) ==
    \E s \in subjects : s.name = r.subject_name /\ r.marks * 100 >= 60 * s.max_marks

\* CASE WHEN marks >= 60 THEN 1 END
CountedAsPass(r) == r.marks >= 60

\* avg_marks and pass_rate are in tenths
get_dashboard_stats ==
    LET count  == Cardinality(results)
        total  == SumV({ [k |-> r, v |-> r.marks] : r \in results })
        passed == Cardinality({ r \in results : CountedAsPass(r) })
    IN  [ total_students |-> Cardinality(students),
          total_subjects |-> Cardinality(subjects),
          \* "round(x, 1) if x else 0": x is NULL over no rows, or 0.0
          avg_marks |-> IF count = 0 \/ total = 0 THEN 0
                        ELSE Round1(Frac(total, count)),
          pass_rate |-> IF count = 0 \/ passed = 0 THEN 0
                        ELSE Round1(Frac(passed * 100, count)) ]

\* mutant of ReportRows: a LEFT JOIN, a missing subject counting as 100
ReportRows_left_join(student_id) ==
    { [subject |-> r.subject_name, marks |-> r.marks,
       max_marks |-> IF r.subject_name \in SubjectNamesOf(subjects)
                     THEN (CHOOSE s \in subjects : s.name = r.subject_name).max_marks
                     ELSE 100] :
        r \in { x \in results : x.student_id = student_id } }

\* SELECT r.subject_name, r.marks, s.max_marks FROM results r
\* JOIN subjects s ON r.subject_name = s.name WHERE r.student_id = ?
ReportRows(student_id) ==
    { [subject |-> r.subject_name, marks |-> r.marks, max_marks |-> s.max_marks] :
        <<r, s>> \in { x \in results \X subjects :
                         /\ x[1].student_id = student_id
                         /\ x[1].subject_name = x[2].name } }

\* one entry of report["results"]; percentage is in tenths
ReportEntry(row) ==
    LET percentage == Frac(row.marks * 100, row.max_marks)
    IN  [ subject |-> row.subject, marks |-> row.marks, max_marks |-> row.max_marks,
          percentage |-> Round1(percentage), grade |-> get_grade(percentage) ]

\* overall_percentage before it is rounded
OverallPercentage(total_marks, total_max_marks) ==
    IF total_max_marks > 0 THEN Frac(total_marks * 100, total_max_marks)
    ELSE Frac(0, 1)

\* what generate_student_report gives for an unknown student
NoReport == [none |-> TRUE]

\* marks / max_marks with max_marks = 0: the exception leaves the method
ZeroDivisionError == [raised |-> "ZeroDivisionError"]

\* mutant of StudentFound: a student without results counts as unknown
StudentFound_with_results(student_id) ==
    /\ student_id \in StudentIdsOf(students)
    /\ \E r \in results : r.student_id = student_id

\* SELECT ... FROM students WHERE id = ? fetches a row
StudentFound(student_id) == student_id \in StudentIdsOf(students)

\* the report; overall_percentage is in tenths
generate_student_report(student_id) ==
    IF ~StudentFound(student_id) THEN NoReport
    ELSE LET student_row == CHOOSE s \in students : s.id = student_id
             rows == ReportRows(student_id)
             fetched == CHOOSE l \in OrderBy({ [k |-> r.subject, v |-> r] : r \in rows }) : TRUE
             total_marks == SumV({ [k |-> r, v |-> r.marks] : r \in rows })
             total_max_marks == SumV({ [k |-> r, v |-> r.max_marks] : r \in rows })
             overall_percentage == OverallPercentage(total_marks, total_max_marks)
         IN  IF \E r \in rows : r.max_marks = 0 THEN ZeroDivisionError
             ELSE [ student |-> student_row,
                    results |-> [ i \in DOMAIN fetched |-> ReportEntry(fetched[i]) ],
                    summary |-> [ total_marks |-> total_marks,
                                  total_max_marks |-> total_max_marks,
                                  overall_percentage |-> Round1(overall_percentage),
                                  overall_grade |-> get_grade(overall_percentage) ] ]

\* Reports page: the Status metric shown with a report
ReportStatus(report) ==
    IF report.summary.overall_percentage >= 600 THEN "PASS" ELSE "FAIL"

(***************************************************************************)
(* Results page: the marks form.                                           *)
(***************************************************************************)
\* the results table after one save_marks call made from table res; raised
\* says that the connection, the statement or the commit raised (the store is
\* locked or cannot be written), which the bare except turns into False
results_after_save(res, student_id, subject_name, marks, raised) ==
    IF raised THEN res
    ELSE { r \in res : ~(r.student_id = student_id /\ r.subject_name = subject_name) }
           \cup {[student_id |-> student_id, subject_name |-> subject_name,
                  marks |-> marks]}

\* the results table after the loop over marks_data.items(), in list order
RECURSIVE results_after_submit(_, _, _, _, _)
results_after_submit(res, student_id, list, marks_data, faults) ==
    IF list = <<>> THEN res
    ELSE results_after_submit(
             results_after_save(res, student_id, Head(list).name,
                                marks_data[Head(list).name],
                                Head(list).name \in faults),
             student_id, Tail(list), marks_data, faults)

\* mutant of AllSaved: one saved mark is enough
AllSaved_any(success_count, attempted) == success_count > 0

\* success_count == len(marks_data)
AllSaved(success_count, attempted) == success_count = attempted

\* the marks a number_input of the form accepts for a subject
FormMarks(subject, marks) == { m \in marks : 0 <= m /\ m <= subject.max_marks }

\* the save_marks calls of one submission, in order, with what each returned
save_marks_calls(list, marks_data, faults) ==
    [ i \in DOMAIN list |->
        [ subject |-> list[i].name, marks |-> marks_data[list[i].name],
          returned |-> list[i].name \notin faults ] ]

\* success_count after the loop: the calls that returned True
success_count(list, faults) ==
    Cardinality({ i \in DOMAIN list : list[i].name \notin faults })

\* "if submitted:" for the selected student with marks_data entered for the
\* listed subjects; faults are the subjects whose save_marks call raises
submitted(selected_student_id, list, marks_data, faults) ==
    /\ students # {} /\ subjects # {}
    /\ selected_student_id \in StudentIdsOf(students)
    /\ \A s \in subjects : marks_data[s.name] \in FormMarks(s, {marks_data[s.name]})
    /\ op' = "marks_form_submit"
    /\ args' = <<selected_student_id, marks_data>>
    /\ replaced' = {}
    /\ results' = results_after_submit(results, selected_student_id, list,
                                       marks_data, faults)
    /\ ret' = [ calls |-> save_marks_calls(list, marks_data, faults),
                success_count |-> success_count(list, faults),
                attempted |-> Len(list),
                message |-> IF AllSaved(success_count(list, faults), Len(list))
                            THEN "All marks saved successfully!"
                            ELSE "Some marks could not be saved!" ]
    /\ UNCHANGED <<students, subjects>>

\* save_marks as the marks form calls it: for a listed student and subject,
\* with marks the subject's number_input accepts
save_marks_in_range(student_id, subject_name, marks) ==
    /\ student_id \in StudentIdsOf(students)
    /\ \E s \in subjects : s.name = subject_name /\ marks \in FormMarks(s, {marks})
    /\ save_marks(student_id, subject_name, marks)

\* the marks form of the Results page, filled in with marks of the set marks
\* and sent with "Save Marks"
marks_form_submit(selected_student_id, marks) ==
    \E list \in get_all_subjects,
       faults \in { f \in SUBSET SubjectNamesOf(subjects) : Cardinality(f) <= MaxFaults },
       marks_data \in [SubjectNamesOf(subjects) -> marks] :
          submitted(selected_student_id, list, marks_data, faults)

(***************************************************************************)
(* Reports page: All Students Summary.                                     *)
(***************************************************************************)
\* mutant of Attempted: every listed student gets an entry
Attempted_always(student_results) == TRUE

\* "if student_results:" the student has at least one stored mark
Attempted(student_results) == DOMAIN student_results # {}

\* next((s for s in subjects if s['name'] == subject_name), None) is not None
SubjectInfoFound(subject_name) == subject_name \in SubjectNamesOf(subjects)

\* max_marks of the subject_info of subject_name, 0 added when there is none
SubjectInfoMaxMarks(subject_name) ==
    IF SubjectInfoFound(subject_name) /\ subject_name \in SubjectNamesOf(subjects)
    THEN (CHOOSE s \in subjects : s.name = subject_name).max_marks
    ELSE 0

\* the entry appended for one student of the list; Percentage is in tenths
PerformanceEntry(student) ==
    LET student_results == get_student_results(student.id)
        total_marks ==
            SumV({ [k |-> n, v |-> student_results[n]] : n \in DOMAIN student_results })
        total_max_marks ==
            SumV({ [k |-> n, v |-> SubjectInfoMaxMarks(n)] : n \in DOMAIN student_results })
        percentage == IF total_max_marks > 0
                      THEN Frac(total_marks * 100, total_max_marks)
                      ELSE Frac(0, 1)
    IN  [ Name |-> student.name, ID |-> student.id, Class |-> student.class,
          total_marks |-> total_marks, total_max_marks |-> total_max_marks,
          Percentage |-> Round1(percentage),
          Grade |-> get_grade(percentage),
          Status |-> IF AtLeast(percentage, 60) THEN "PASS" ELSE "FAIL" ]

\* "not all_results.empty and all_results['marks'].notna().any()": the left
\* join of students with results has a row with marks
AnyMarks == \E s \in students : \E r \in results : r.student_id = s.id

\* student_performance for the page's students list; the empty list stands
\* for the "no data" messages
RECURSIVE PerformanceOf(_)
PerformanceOf(list) ==
    IF list = <<>> THEN <<>>
    ELSE (IF Attempted(get_student_results(Head(list).id))
          THEN << PerformanceEntry(Head(list)) >> ELSE <<>>)
         \o PerformanceOf(Tail(list))

all_students_performance(list) == IF AnyMarks THEN PerformanceOf(list) ELSE <<>>

(***************************************************************************)
(* Calls of the aggregation queries: they read the store and change no     *)
(* table.  The plain reads (get_all_students, get_all_subjects,            *)
(* get_student_results) are the operators above, taken in any state.       *)
(***************************************************************************)
call_get_dashboard_stats ==
    /\ op' = "get_dashboard_stats"
    /\ args' = <<>>
    /\ replaced' = {}
    /\ ret' = get_dashboard_stats
    /\ UNCHANGED tables

call_generate_student_report(student_id) ==
    /\ op' = "generate_student_report"
    /\ args' = <<student_id>>
    /\ replaced' = {}
    /\ ret' = generate_student_report(student_id)
    /\ UNCHANGED tables

\* the button "Show All Students Performance", with the students list the
\* page has read
call_show_all_students_performance ==
    /\ students # {}
    /\ op' = "show_all_students_performance"
    /\ args' = <<>>
    /\ replaced' = {}
    /\ \E list \in get_all_students : ret' = all_students_performance(list)
    /\ UNCHANGED tables

call_get_grade(percentage) ==
    /\ op' = "get_grade"
    /\ args' = <<percentage>>
    /\ replaced' = {}
    /\ ret' = get_grade(percentage)
    /\ UNCHANGED tables

(***************************************************************************)
(* Specifications.  The inputs of the calls are drawn from a record In of  *)
(* small sets.                                                             *)
(***************************************************************************)
Inputs ==
    [ student_ids |-> {"S001", "S004"},
      people |-> { <<"Alice Brown", "11th Grade">> },
      subject_names |-> {"Mathematics", "Art"},
      max_marks |-> {50},
      marks |-> {40, 50, 85} ]

\* max_marks 402 with marks 241 is 59.95...%, which round(x, 1) turns into 60.0
RoundingInputs ==
    [ student_ids |-> {"S001", "S004"},
      people |-> { <<"Alice Brown", "11th Grade">> },
      subject_names |-> {"Mathematics", "Art"},
      max_marks |-> {402},
      marks |-> {241, 85} ]

NextOver(In) ==
    \/ StudentDatabase
    \/ \E i \in In.student_ids, p \in In.people : add_student(i, p[1], p[2])
    \/ \E i \in In.student_ids : delete_student(i)
    \/ clear_all_students
    \/ \E n \in In.subject_names, m \in In.max_marks : add_subject(n, m)
    \/ \E n \in In.subject_names : delete_subject(n)
    \/ clear_all_subjects
    \/ \E i \in In.student_ids, n \in In.subject_names, m \in In.marks :
          save_marks(i, n, m)
    \/ \E i \in In.student_ids, n \in In.subject_names : save_marks_null(i, n)
    \/ call_get_dashboard_stats
    \/ \E i \in In.student_ids : call_generate_student_report(i)
    \/ call_show_all_students_performance

Next == NextOver(Inputs)

Spec == Init /\ [][Next]_vars

NextRounding == NextOver(RoundingInputs)

SpecRounding == Init /\ [][NextRounding]_vars

\* add_subject called with any integer: the method has no check of max_marks
CoreInputs ==
    [ student_ids |-> {"S001", "S004"},
      people |-> { <<"Alice Brown", "11th Grade">> },
      subject_names |-> {"Mathematics", "Art"},
      max_marks |-> {0, -5},
      marks |-> {40} ]

NextCore == NextOver(CoreInputs)

SpecCore == Init /\ [][NextCore]_vars

\* two students with marks in two subjects, for the properties that compare
\* the reports before and after a call
ReportInputs ==
    [ student_ids |-> {"S001", "S002"},
      people |-> { <<"Alice Brown", "11th Grade">> },
      subject_names |-> {"Mathematics", "Art"},
      max_marks |-> {50},
      marks |-> {40} ]

NextReport == NextOver(ReportInputs)

SpecReport == Init /\ [][NextReport]_vars

\* the marks form is filled in for one student; Art has max_marks 50, so that
\* its number_input accepts 40 only
BatchInputs ==
    [ student_ids |-> {"S001"},
      people |-> { <<"Alice Brown", "11th Grade">> },
      subject_names |-> {"Art"},
      max_marks |-> {50},
      marks |-> {40, 85} ]

\* the Results page with the subject operations that change what it lists
NextBatch ==
    \/ \E n \in BatchInputs.subject_names, m \in BatchInputs.max_marks : add_subject(n, m)
    \/ \E n \in BatchInputs.subject_names : delete_subject(n)
    \/ clear_all_subjects
    \/ \E i \in BatchInputs.student_ids : marks_form_submit(i, BatchInputs.marks)

SpecBatch == Init /\ [][NextBatch]_vars

\* every save_marks call is one the marks form can make
NextValid ==
    \/ StudentDatabase
    \/ \E i \in Inputs.student_ids, p \in Inputs.people : add_student(i, p[1], p[2])
    \/ \E i \in Inputs.student_ids : delete_student(i)
    \/ clear_all_students
    \/ \E n \in Inputs.subject_names, m \in Inputs.max_marks : add_subject(n, m)
    \/ \E n \in Inputs.subject_names : delete_subject(n)
    \/ clear_all_subjects
    \/ \E i \in Inputs.student_ids, n \in Inputs.subject_names, m \in Inputs.marks :
          save_marks_in_range(i, n, m)
    \/ \E i \in Inputs.student_ids : call_generate_student_report(i)
    \/ call_show_all_students_performance

SpecValid == Init /\ [][NextValid]_vars

\* the percentages get_grade is applied to: tenths up to MaxPctTenths / 10,
\* and 89.999
GradeInputs ==
    { Frac(k, 10) : k \in 0..MaxPctTenths } \cup { Frac(89999, 1000) }

NextGrade == \E p \in GradeInputs : call_get_grade(p)

SpecGrade == Init /\ [][NextGrade]_vars

(***************************************************************************)
(* Properties of the store.                                                *)
(***************************************************************************)
ResultsOf(student_id) == { r \in results : r.student_id = student_id }

ResultsIn(subject_name) == { r \in results : r.subject_name = subject_name }

\* C1: every stored Result references an existing Student and an existing
\* Subject, in every reachable state.
C1_ReferentialIntegrity ==
    \A r \in results :
        /\ r.student_id \in StudentIdsOf(students)
        /\ r.subject_name \in SubjectNamesOf(subjects)

\* C2: after delete_student(id) returns, the student is not in
\* get_all_students() and get_student_results(id) is the empty map,
\* whatever marks had been saved for the student.
C2_DeleteStudentCascades ==
    op = "delete_student" =>
        /\ \A l \in get_all_students : \A i \in DOMAIN l : l[i].id # args[1]
        /\ DOMAIN get_student_results(args[1]) = {}
        /\ ResultsOf(args[1]) = {}

\* C3: after delete_subject(name) returns, the subject is not in
\* get_all_subjects() and no Result references the name: no student's
\* get_student_results has an entry for it.
C3_DeleteSubjectCascades ==
    op = "delete_subject" =>
        /\ \A l \in get_all_subjects : \A i \in DOMAIN l : l[i].name # args[1]
        /\ ResultsIn(args[1]) = {}
        /\ \A r \in results : args[1] \notin DOMAIN get_student_results(r.student_id)

\* at most one Result per (student_id, subject_name) pair
OneResultPerPair ==
    \A r1, r2 \in results :
        (r1.student_id = r2.student_id /\ r1.subject_name = r2.subject_name) => r1 = r2

\* C4: at most one Result per (student_id, subject_name) pair in every
\* reachable state; a save_marks(sid, subj, m) that returns True, also over
\* an earlier Result of the pair, leaves exactly one Result for (sid, subj),
\* with marks m, and every Result of every other pair unchanged.
C4_UpsertKeepsOnePerPair ==
    /\ []OneResultPerPair
    /\ [][ (op' = "save_marks" /\ ret' = TRUE) =>
             LET sid  == args'[1]
                 subj == args'[2]
                 same(r) == r.student_id = sid /\ r.subject_name = subj
             IN  /\ { r \in results' : same(r) } =
                      { [student_id |-> sid, subject_name |-> subj, marks |-> args'[3]] }
                 /\ { r \in results' : ~same(r) } = { r \in results : ~same(r) } ]_vars

\* C4 witness: save_marks has overwritten a Result that held other marks.
C4_Witness ==
    /\ op = "save_marks"
    /\ ret = TRUE
    /\ \E r \in replaced : r.marks # args[3]
    /\ Cardinality(results) = 2

\* student ids and subject names are keys of their tables
UniqueKeys ==
    /\ \A s1, s2 \in students : s1.id = s2.id => s1 = s2
    /\ \A s1, s2 \in subjects : s1.name = s2.name => s1 = s2

\* C5: student ids and subject names stay unique; add_student with an id
\* that exists and add_subject with a name that exists return False and
\* leave the three tables unchanged; add_student with a new id returns True
\* and get_all_students() then holds exactly one entry with that id, and it
\* carries the name and class given.
C5_AddKeepsKeysUnique ==
    /\ []UniqueKeys
    /\ [][ /\ op' = "add_student" =>
                IF args'[1] \in StudentIdsOf(students)
                THEN ret' = FALSE /\ tables' = tables
                ELSE /\ ret' = TRUE
                     /\ \A l \in get_all_students' :
                          \E i \in DOMAIN l :
                            /\ l[i] = [id |-> args'[1], name |-> args'[2],
                                       class |-> args'[3]]
                            /\ \A j \in DOMAIN l : l[j].id = args'[1] => j = i
           /\ op' = "add_subject" =>
                IF args'[1] \in SubjectNamesOf(subjects)
                THEN ret' = FALSE /\ tables' = tables
                ELSE ret' = TRUE ]_vars

\* C5 witness: add_student was refused for an id whose row holds another
\* name, and the row is still there.
C5_Witness ==
    /\ op = "add_student"
    /\ ret = FALSE
    /\ \E s \in students : s.id = args[1] /\ s.name # args[2]

(***************************************************************************)
(* Properties of the grading policy and of the aggregation.                *)
(***************************************************************************)
\* C6: get_grade is total with inclusive lower bounds: A iff p >= 90, B iff
\* 80 <= p < 90, C iff 70 <= p < 80, D iff 60 <= p < 70, F iff p < 60; and
\* grade(89.9) = B, grade(90.0) = A, grade(59.9) = F, grade(60.0) = D,
\* grade(100) = A, grade(0) = F.
C6_GradeBuckets ==
    op = "get_grade" =>
        LET p == args[1]
            ge(t) == p.n >= t * p.d
        IN  /\ ret \in {"A", "B", "C", "D", "F"}
            /\ ret = "A" <=> ge(90)
            /\ ret = "B" <=> (ge(80) /\ ~ge(90))
            /\ ret = "C" <=> (ge(70) /\ ~ge(80))
            /\ ret = "D" <=> (ge(60) /\ ~ge(70))
            /\ ret = "F" <=> ~ge(60)
            /\ p = Frac(899, 10) => ret = "B"
            /\ p = Frac(900, 10) => ret = "A"
            /\ p = Frac(599, 10) => ret = "F"
            /\ p = Frac(600, 10) => ret = "D"
            /\ p = Frac(1000, 10) => ret = "A"
            /\ p = Frac(0, 10) => ret = "F"

\* C6 witness: get_grade was applied to 89.9 and gave B.
C6_Witness ==
    /\ op = "get_grade"
    /\ args = << Frac(899, 10) >>
    /\ ret = "B"

\* C7: the status shown with a student report is PASS exactly when the
\* report's overall_grade is A, B, C or D, and FAIL exactly when it is F.
C7_StatusAgreesWithGrade ==
    (/\ op = "generate_student_report"
     /\ ret # NoReport
     /\ ret # ZeroDivisionError
     /\ Len(ret.results) > 0) =>
        /\ ReportStatus(ret) = "PASS" <=> ret.summary.overall_grade \in {"A", "B", "C", "D"}
        /\ ReportStatus(ret) = "FAIL" <=> ret.summary.overall_grade = "F"

\* max_marks of the subject called name, 0 when there is none
MaxMarksOf(name) ==
    IF \E s \in subjects : s.name = name
    THEN (CHOOSE s \in subjects : s.name = name).max_marks
    ELSE 0

\* C8: for every existing student the report summary has total_marks = the
\* sum of marks over the Results get_student_results(id) returns,
\* total_max_marks = the sum of max_marks of those Results' subjects,
\* overall_percentage = total_marks / total_max_marks * 100 and overall_grade
\* = get_grade of it; with no Results the summary is 0, 0, 0, F.
C8_SummaryOverStudentResults ==
    \A sid \in StudentIdsOf(students) :
        LET stored  == get_student_results(sid)
            marks   == SumV({ [k |-> n, v |-> stored[n]] : n \in DOMAIN stored })
            max     == SumV({ [k |-> n, v |-> MaxMarksOf(n)] : n \in DOMAIN stored })
            summary == generate_student_report(sid).summary
        IN  /\ summary.total_marks = marks
            /\ summary.total_max_marks = max
            /\ max > 0 => /\ summary.overall_percentage * max = 1000 * marks
                          /\ summary.overall_grade = get_grade(Frac(marks * 100, max))
            /\ DOMAIN stored = {} =>
                 summary = [ total_marks |-> 0, total_max_marks |-> 0,
                             overall_percentage |-> 0, overall_grade |-> "F" ]

\* C9: generate_student_report(id) returns None exactly when no Student has
\* that id, also when Results for the id are still stored; for an existing
\* student the report's student field is that student's row; in both cases
\* the three tables are unchanged.
C9_ReportNoneIffUnknown ==
    [][ op' = "generate_student_report" =>
          /\ ret' = NoReport <=> args'[1] \notin StudentIdsOf(students)
          /\ args'[1] \in StudentIdsOf(students) =>
               /\ ret'.student \in students
               /\ ret'.student.id = args'[1]
          /\ tables' = tables ]_vars

\* C9 witness: None was returned for an id that has no Student while Results
\* for it are stored.
C9_Witness ==
    /\ op = "generate_student_report"
    /\ ret = NoReport
    /\ ResultsOf(args[1]) # {}

\* C10: pass_rate is 100 * (rows with raw marks >= 60) / (all rows) to the
\* nearest tenth, and 0 over no rows; a Result with marks = max_marks < 60
\* counts as not passing; Math 85/100 with Math 40/100 gives 50.0.
C10_PassRateOnRawMarks ==
    LET n == Cardinality(results)
        k == Cardinality({ r \in results : r.marks >= 60 })
        t == get_dashboard_stats.pass_rate
    IN  /\ n = 0 => t = 0
        /\ n > 0 => /\ 2 * (t * n - 1000 * k) <= n
                    /\ 2 * (1000 * k - t * n) <= n
        /\ \A r \in results :
             (results = {r} /\ r.marks < 60 /\ MaxMarksOf(r.subject_name) = r.marks)
                => t = 0
        /\ \A r1, r2 \in results :
             (/\ results = {r1, r2}
              /\ r1.subject_name = "Mathematics" /\ r1.marks = 85
              /\ r2.subject_name = "Mathematics" /\ r2.marks = 40
              /\ MaxMarksOf("Mathematics") = 100) => t = 500

\* C10 witness: get_dashboard_stats was called over a single Result with
\* full marks 50 out of 50, and gave pass_rate 0.
C10_Witness ==
    /\ op = "get_dashboard_stats"
    /\ \E r \in results :
         results = {r} /\ r.marks = 50 /\ MaxMarksOf(r.subject_name) = 50
    /\ ret.pass_rate = 0

\* the entries of a performance table t that belong to student id
EntriesOf(t, id) == { i \in DOMAIN t : t[i].ID = id }

\* C11: the all-students performance table has exactly one entry for each
\* existing student with at least one stored Result and none for any other
\* student; with S1 (Math 85/100) and S2 (Math 40/100) it has two entries,
\* S1 with grade B and status PASS, S2 with grade F and status FAIL.
C11_OneEntryPerStudentWithResults ==
    \A list \in get_all_students :
        LET t == all_students_performance(list)
        IN  /\ \A i \in DOMAIN t : t[i].ID \in StudentIdsOf(students)
            /\ \A s \in students :
                 Cardinality(EntriesOf(t, s.id)) =
                     IF ResultsOf(s.id) # {} THEN 1 ELSE 0
            /\ \A r1, r2 \in results :
                 (/\ results = {r1, r2}
                  /\ r1.student_id # r2.student_id
                  /\ {r1.student_id, r2.student_id} \subseteq StudentIdsOf(students)
                  /\ r1.subject_name = "Mathematics" /\ r1.marks = 85
                  /\ r2.subject_name = "Mathematics" /\ r2.marks = 40
                  /\ MaxMarksOf("Mathematics") = 100) =>
                     /\ Len(t) = 2
                     /\ \A i \in EntriesOf(t, r1.student_id) :
                          t[i].Grade = "B" /\ t[i].Status = "PASS"
                     /\ \A i \in EntriesOf(t, r2.student_id) :
                          t[i].Grade = "F" /\ t[i].Status = "FAIL"

\* C11 witness: the table was shown for S001 (Math 85/100) and S004 (Math
\* 40/100), with the sample students S002 and S003 holding no Result.
C11_Witness ==
    /\ op = "show_all_students_performance"
    /\ results = { [student_id |-> "S001", subject_name |-> "Mathematics", marks |-> 85],
                   [student_id |-> "S004", subject_name |-> "Mathematics", marks |-> 40] }
    /\ MaxMarksOf("Mathematics") = 100
    /\ Cardinality(students) = 4
    /\ Len(ret) = 2
    /\ \E i, j \in DOMAIN ret :
         /\ ret[i].ID = "S001" /\ ret[i].Grade = "B" /\ ret[i].Status = "PASS"
         /\ ret[j].ID = "S004" /\ ret[j].Grade = "F" /\ ret[j].Status = "FAIL"

\* C12: every entry of the all-students performance table has total_marks
\* equal to the sum of the student's stored marks and total_max_marks equal
\* to the sum of max_marks over exactly the same subjects; its percentage is
\* total_marks / total_max_marks * 100, its grade get_grade(percentage) and
\* its status PASS exactly when the percentage is at least 60.
C12_TotalsOverSameSubjects ==
    \A list \in get_all_students :
        LET t == all_students_performance(list)
        IN  \A i \in DOMAIN t :
              LET mine == ResultsOf(t[i].ID)
                  total == SumV({ [k |-> r.subject_name, v |-> r.marks] : r \in mine })
                  total_max == SumV({ [k |-> r.subject_name,
                                       v |-> MaxMarksOf(r.subject_name)] : r \in mine })
              IN  /\ t[i].total_marks = total
                  /\ { r.subject_name : r \in mine } \subseteq SubjectNamesOf(subjects)
                  /\ t[i].total_max_marks = total_max
                  /\ total_max > 0
                  /\ t[i].Percentage = Round1(Frac(total * 100, total_max))
                  /\ t[i].Grade = get_grade(Frac(total * 100, total_max))
                  /\ t[i].Status = "PASS" <=> AtLeast(Frac(total * 100, total_max), 60)

\* C13: every stored Subject has max_marks >= 1, so that the division
\* marks / max_marks of generate_student_report is defined for every
\* Result/Subject pair it joins.
C13_MaxMarksPositive ==
    /\ \A s \in subjects : s.max_marks >= 1
    /\ \A id \in StudentIdsOf(students) :
         generate_student_report(id) # ZeroDivisionError

\* the entries of a report's results whose subject is name
ReportEntriesFor(report, name) ==
    { report.results[i] : i \in { j \in DOMAIN report.results :
                                    report.results[j].subject = name } }

\* C14: after delete_subject(name), the report of every existing student has
\* no results entry for name, its summary totals count neither the marks the
\* student had in name nor the max_marks of name, and the entries and totals
\* of the student's other subjects are as before.
C14_ReportExcludesDeletedSubject ==
    [][op' = "delete_subject" =>
        \A id \in StudentIdsOf(students) :
          \A name \in {args'[1]} :
          \A before \in {generate_student_report(id)} :
          \A after \in {generate_student_report(id)'} :
          \A gone \in {ReportEntriesFor(before, name)} :
                /\ ReportEntriesFor(after, name) = {}
                /\ after.results = SelectSeq(before.results, LAMBDA e : e.subject # name)
                /\ after.summary.total_marks =
                       before.summary.total_marks
                         - SumV({ [k |-> e, v |-> e.marks] : e \in gone })
                /\ after.summary.total_max_marks =
                       before.summary.total_max_marks
                         - SumV({ [k |-> e, v |-> e.max_marks] : e \in gone })
                /\ after.student = before.student]_vars

\* C14 witness: delete_subject(name) has run while an existing student held
\* marks in name and in another existing subject; the report of that student
\* has the one entry of the other subject.
C14_Witness ==
    /\ op = "delete_subject"
    /\ \E s \in students : \E r1, r2 \in ResultsOf(s.id) :
         /\ r1.subject_name = args[1]
         /\ args[1] \notin SubjectNamesOf(subjects)
         /\ r2.subject_name \in SubjectNamesOf(subjects)
         /\ Len(generate_student_report(s.id).results) = 1
         /\ generate_student_report(s.id).results[1].subject = r2.subject_name
         /\ generate_student_report(s.id).summary.total_marks = r2.marks

\* C15: clear_all_students leaves the students and results tables empty and
\* the subjects table as it was; clear_all_subjects leaves the subjects and
\* results tables empty and the students table as it was.
C15_ClearAllEffects ==
    [][/\ op' = "clear_all_students" =>
            students' = {} /\ results' = {} /\ subjects' = subjects
       /\ op' = "clear_all_subjects" =>
            subjects' = {} /\ results' = {} /\ students' = students]_vars

\* C15 witness: clear_all_students has run on a store that held a subject
\* added by a caller; the subject is still there.
C15_Witness ==
    /\ op = "clear_all_students"
    /\ students = {} /\ results = {}
    /\ [name |-> "Art", max_marks |-> 50] \in subjects

\* C16: a Save Marks submission calls save_marks once per listed subject and
\* counts the calls that returned True; it reports full success exactly when
\* the count equals the number of subjects attempted and a failure otherwise;
\* the marks of every call that returned True are stored even when a later
\* call fails, and a call that returned False leaves the Result of its
\* (student, subject) pair as it was.
C16_PartialBatchIsCountedAndKept ==
    [][op' = "marks_form_submit" =>
        \A calls \in {ret'.calls} : \A id \in {args'[1]} :
            /\ Len(calls) = Cardinality(subjects)
            /\ { calls[i].subject : i \in DOMAIN calls } = SubjectNamesOf(subjects)
            /\ ret'.attempted = Len(calls)
            /\ ret'.success_count =
                   Cardinality({ i \in DOMAIN calls : calls[i].returned })
            /\ ret'.message = "All marks saved successfully!"
                   <=> ret'.success_count = ret'.attempted
            /\ ret'.message = "Some marks could not be saved!"
                   <=> ret'.success_count # ret'.attempted
            /\ \A i \in DOMAIN calls :
                 LET mine(res) == { r \in res : /\ r.student_id = id
                                                 /\ r.subject_name = calls[i].subject }
                 IN  IF calls[i].returned
                     THEN mine(results') =
                              {[student_id |-> id, subject_name |-> calls[i].subject,
                                marks |-> calls[i].marks]}
                     ELSE mine(results') = mine(results)]_vars

\* C16 witness: a submission in which the first call returned True and a
\* later one False: the first mark is stored, and the pair of the failed call
\* keeps the marks it had, which are not the marks entered.
C16_Witness ==
    /\ op = "marks_form_submit"
    /\ ret.message = "Some marks could not be saved!"
    /\ ret.success_count >= 1 /\ ret.success_count < ret.attempted
    /\ \E i, j \in DOMAIN ret.calls :
         /\ i < j
         /\ ret.calls[i].returned /\ ~ret.calls[j].returned
         /\ [student_id |-> args[1], subject_name |-> ret.calls[i].subject,
             marks |-> ret.calls[i].marks] \in results
         /\ \E r \in results : /\ r.student_id = args[1]
                               /\ r.subject_name = ret.calls[j].subject
                               /\ r.marks # ret.calls[j].marks

\* C17: when every save_marks call is made with 0 <= marks <= max_marks of
\* the subject as it exists at the time of the call, every per-subject
\* percentage and the overall percentage of generate_student_report, and
\* every percentage of the all-students performance table, lie between 0 and
\* 100 (percentages are in tenths).
C17_PercentagesWithinRange ==
    /\ \A id \in StudentIdsOf(students) :
         \A report \in {generate_student_report(id)} :
            /\ \A i \in DOMAIN report.results :
                 0 <= report.results[i].percentage /\ report.results[i].percentage <= 1000
            /\ 0 <= report.summary.overall_percentage
            /\ report.summary.overall_percentage <= 1000
    /\ \A list \in get_all_students :
         \A t \in {all_students_performance(list)} :
            \A i \in DOMAIN t : 0 <= t[i].Percentage /\ t[i].Percentage <= 1000

=============================================================================
